---- MODULE Spec2Model ----
(***************************************************************************)
(* A model of the game-server client of src/src/lib.rs: the Connection     *)
(* (stored State and registration info), the response envelope parser and  *)
(* every public operation, each translated from its Rust code.             *)
(*                                                                         *)
(* Conventions                                                             *)
(*  - A string is a sequence of atoms (<<"/", "7", "/", "state">>);        *)
(*    format! is concatenation.                                            *)
(*  - An integer that may leave the 32-bit range is a pair of limbs        *)
(*    [hi, lo] standing for hi * 2^16 + lo with lo in 0 .. 2^16 - 1, so    *)
(*    that equal integers are equal records.                               *)
(*  - Option<T> is None / Some(v); Result<T, E> is Ok(v) / Err(e); a failed*)
(*    unwrap() is the third outcome Panic.                                 *)
(***************************************************************************)
EXTENDS Integers, Sequences, FiniteSets, TLC

(***************************************************************************)
(* Bounds of the explored inputs.                                          *)
(***************************************************************************)
\* ids of registration payloads range over 1 .. MaxId
MaxId == 2
\* non-negative state codes reported by the server range over 0 .. MaxCode
MaxCode == 4

(***************************************************************************)
(* Option and Result.                                                      *)
(***************************************************************************)
None == [some |-> FALSE]
Some(v) == [some |-> TRUE, v |-> v]

Ok(v) == [k |-> "Ok", v |-> v]
Err(e) == [k |-> "Err", e |-> e]
Panic == [k |-> "Panic"]

(***************************************************************************)
(* Integers as limbs.                                                      *)
(***************************************************************************)
Limb == 2 ^ 16
HalfLimb == 2 ^ 15

W(hi, lo) == [hi |-> hi, lo |-> lo]

\* `x as i32` of an i64 x: keeps the low 32 bits, read as two's complement
as_i32(w) == W(((w.hi + HalfLimb) % Limb) - HalfLimb, w.lo)

\* the quotient and the remainder of a non-negative w by 10
WDiv10(w) == W(w.hi \div 10, (((w.hi % 10) * Limb) + w.lo) \div 10)
WMod10(w) == (((w.hi % 10) * Limb) + w.lo) % 10

Digit(d) == <<"0", "1", "2", "3", "4", "5", "6", "7", "8", "9">>[d + 1]

\* u64::to_string / Display of a u64: the decimal digits, most significant first
RECURSIVE to_string(_)
to_string(w) ==
    IF w.hi = 0 /\ w.lo < 10 THEN <<Digit(w.lo)>>
    ELSE to_string(WDiv10(w)) \o <<Digit(WMod10(w))>>

(***************************************************************************)
(* serde_json::Value.                                                      *)
(***************************************************************************)
JNull == [t |-> "null"]
JBool(b) == [t |-> "bool", b |-> b]
JInt(hi, lo) == [t |-> "int", hi |-> hi, lo |-> lo]
\* a number with a fractional part
JFloat == [t |-> "float"]
JStr(s) == [t |-> "str", s |-> s]
JArr(a) == [t |-> "arr", a |-> a]
JObj(o) == [t |-> "obj", o |-> o]

as_object(v) == IF v.t = "obj" THEN Some(v.o) ELSE None
as_array(v) == IF v.t = "arr" THEN Some(v.a) ELSE None
as_str(v) == IF v.t = "str" THEN Some(v.s) ELSE None
as_bool(v) == IF v.t = "bool" THEN Some(v.b) ELSE None
\* Some for an integer that fits i64: every integer of the model does
as_i64(v) == IF v.t = "int" THEN Some(W(v.hi, v.lo)) ELSE None
\* Some for a non-negative integer only
as_u64(v) == IF v.t = "int" /\ v.hi >= 0 THEN Some(W(v.hi, v.lo)) ELSE None

\* Map::get on the map of an object
get_key(o, key) == IF key \in DOMAIN o THEN Some(o[key]) ELSE None
\* Value::get with a string index: None unless v is an object with the key
value_get(v, key) == IF v.t = "obj" /\ key \in DOMAIN v.o THEN Some(v.o[key]) ELSE None

\* opt.and_then(f) for the accessors above, used for chains of unwrap():
\* the chain panics exactly when one link is None
field(opt, key) == IF opt.some THEN get_key(opt.v, key) ELSE None
then_object(opt) == IF opt.some THEN as_object(opt.v) ELSE None
then_array(opt) == IF opt.some THEN as_array(opt.v) ELSE None
then_str(opt) == IF opt.some THEN as_str(opt.v) ELSE None
then_bool(opt) == IF opt.some THEN as_bool(opt.v) ELSE None
then_i64(opt) == IF opt.some THEN as_i64(opt.v) ELSE None
then_u64(opt) == IF opt.some THEN as_u64(opt.v) ELSE None

(***************************************************************************)
(* Error, State, RegPlayerInfo.                                            *)
(***************************************************************************)
\* the Error struct, boxed as the operations' error
Error_new(id, description, info) ==
    [kind |-> "Remote", id |-> id, description |-> description, info |-> info]

\* a reqwest error (send or body decoding), boxed as the operations' error
TransportError == [kind |-> "Transport"]

Error_from_json(json) ==
    LET id == then_i64(value_get(json, "id"))
        description == then_str(value_get(json, "description"))
        info == then_str(value_get(json, "info"))
    IN  IF id.some /\ description.some /\ info.some
        THEN Ok(Error_new(as_i32(id.v), Some(description.v), Some(info.v)))
        ELSE Panic

\* the State enum
Registration == [tag |-> "Registration"]
Idle == [tag |-> "Idle"]
Searching == [tag |-> "Searching"]
Playing == [tag |-> "Playing"]
Disconnected(reason) == [tag |-> "Disconnected", reason |-> reason]

\* State::from_id with its arms numbered from 1
State_from_id_shifted(state_id) ==
    IF state_id = W(0, 1) THEN Registration
    ELSE IF state_id = W(0, 2) THEN Idle
    ELSE IF state_id = W(0, 3) THEN Searching
    ELSE IF state_id = W(0, 4) THEN Playing
    ELSE Disconnected(<<"Unknown state id">>)

\* State::from_id without the arm of Playing
State_from_id_no_playing(state_id) ==
    IF state_id = W(0, 0) THEN Registration
    ELSE IF state_id = W(0, 1) THEN Idle
    ELSE IF state_id = W(0, 2) THEN Searching
    ELSE Disconnected(<<"Unknown state id">>)

State_from_id(state_id) ==
    IF state_id = W(0, 0) THEN Registration
    ELSE IF state_id = W(0, 1) THEN Idle
    ELSE IF state_id = W(0, 2) THEN Searching
    ELSE IF state_id = W(0, 3) THEN Playing
    ELSE Disconnected(<<"Unknown state id">>)

RegPlayerInfo_new(nickname, id, player_id) ==
    [nickname |-> nickname, id |-> id, player_id |-> player_id]

Player_new(nickname, id) == [nickname |-> nickname, id |-> id]

(***************************************************************************)
(* Connection: the private helpers.  self is [state, info]; resp is what   *)
(* the transport yields for the request: [t |-> "fail"] when send() or     *)
(* json() fails, the decoded body otherwise.  Every helper returns         *)
(* [sent, res]: the requests it issued and its Result.                     *)
(***************************************************************************)
base_url == <<"http://host">>

TransportFail == [t |-> "fail"]

Request(method, url, query, body) ==
    [method |-> method, url |-> url, query |-> query, body |-> body]

\* parse looking for the error key before the success key
parse_error_first(resp) ==
    LET o == as_object(resp)
    IN  IF ~o.some THEN Panic
        ELSE IF "error" \in DOMAIN o.v
             THEN LET e == Error_from_json(o.v["error"])
                  IN  IF e.k = "Panic" THEN Panic ELSE Err(e.v)
        ELSE IF "success" \in DOMAIN o.v THEN Ok(o.v["success"])
        ELSE Panic

parse(resp) ==
    LET o == as_object(resp)
    IN  IF ~o.some THEN Panic
        ELSE IF "success" \in DOMAIN o.v THEN Ok(o.v["success"])
        ELSE IF "error" \notin DOMAIN o.v THEN Panic
        ELSE LET e == Error_from_json(o.v["error"])
             IN  IF e.k = "Panic" THEN Panic ELSE Err(e.v)

\* get sending the request a second time when the first attempt fails
get_retry(command, query, body, resp) ==
    LET request == Request("GET", base_url \o <<"/">> \o command, query, body)
    IN  IF resp.t = "fail"
        THEN [sent |-> <<request, request>>, res |-> Err(TransportError)]
        ELSE [sent |-> <<request>>, res |-> Ok(resp)]

get(command, query, body, resp) ==
    [sent |-> <<Request("GET", base_url \o <<"/">> \o command, query, body)>>,
     res |-> IF resp.t = "fail" THEN Err(TransportError) ELSE Ok(resp)]

get_parsed(command, query, body, resp) ==
    LET x == get(command, query, body, resp)
    IN  IF x.res.k = "Ok" THEN [sent |-> x.sent, res |-> parse(x.res.v)] ELSE x

get_parsed_with_id(self, command, query, body, resp) ==
    IF self.info.some
    THEN get_parsed(<<"/">> \o to_string(self.info.v.id) \o <<"/">> \o command,
                    query, body, resp)
    ELSE [sent |-> <<>>, res |-> Panic]

post(command, query, body, resp) ==
    [sent |-> <<Request("POST", base_url \o <<"/">> \o command, query, body)>>,
     res |-> IF resp.t = "fail" THEN Err(TransportError) ELSE Ok(resp)]

post_parsed(command, query, body, resp) ==
    LET x == post(command, query, body, resp)
    IN  IF x.res.k = "Ok" THEN [sent |-> x.sent, res |-> parse(x.res.v)] ELSE x

post_parsed_with_id(self, command, query, body, resp) ==
    IF self.info.some
    THEN post_parsed(<<"/">> \o to_string(self.info.v.id) \o <<"/">> \o command,
                     query, body, resp)
    ELSE [sent |-> <<>>, res |-> Panic]

\* the return of an operation: the connection after it, its Result (or
\* Panic) and the requests it issued
Return(self, res, sent) == [self |-> self, res |-> res, sent |-> sent]

Connection_new == [state |-> Registration, info |-> None]

(***************************************************************************)
(* Decoding of a list entry "<id>:<nickname>" (get_players, get_requests). *)
(***************************************************************************)
Digits == {"0", "1", "2", "3", "4", "5", "6", "7", "8", "9"}

DigitValue(c) == CHOOSE d \in 0 .. 9 : Digit(d) = c

\* str::find(':'): the index of the first colon
\* str::rfind(':'): the index of the last colon
find_last_colon(s) ==
    IF \E i \in 1 .. Len(s) : s[i] = ":"
    THEN Some(CHOOSE i \in 1 .. Len(s) :
                  s[i] = ":" /\ \A j \in (i + 1) .. Len(s) : s[j] # ":")
    ELSE None

find_colon(s) ==
    IF \E i \in 1 .. Len(s) : s[i] = ":"
    THEN Some(CHOOSE i \in 1 .. Len(s) : s[i] = ":" /\ \A j \in 1 .. (i - 1) : s[j] # ":")
    ELSE None

\* the value of a sequence of decimal digits, in limbs
RECURSIVE digits_value(_)
digits_value(s) ==
    IF s = <<>> THEN W(0, 0)
    ELSE LET w == digits_value(SubSeq(s, 1, Len(s) - 1))
             x == (w.lo * 10) + DigitValue(s[Len(s)])
         IN  W((w.hi * 10) + (x \div Limb), x % Limb)

\* str::parse::<u64>(): an optional "+" and at least one decimal digit.
\* (An overflow of u64 needs 20 digits, more than any entry explored.)
parse_u64(s) ==
    LET d == IF s # <<>> /\ s[1] = "+" THEN Tail(s) ELSE s
    IN  IF d # <<>> /\ \A i \in 1 .. Len(d) : d[i] \in Digits
        THEN Some(digits_value(d))
        ELSE None

\* the body of the loop of get_players and get_requests for one entry z:
\* None when one of its unwrap() panics
decode_entry(z) ==
    LET s == as_str(z)
        colon_pos == IF s.some THEN find_colon(s.v) ELSE None
        id == IF colon_pos.some THEN parse_u64(SubSeq(s.v, 1, colon_pos.v - 1)) ELSE None
    IN  IF id.some
        THEN Some(Player_new(SubSeq(s.v, colon_pos.v + 1, Len(s.v)), id.v))
        ELSE None

\* the loop over the entries y: the pushed players, or Panic at the first
\* entry that fails
decode_entries(y) ==
    IF \A i \in 1 .. Len(y) : decode_entry(y[i]).some
    THEN Ok([i \in 1 .. Len(y) |-> decode_entry(y[i]).v])
    ELSE Panic

\* i32::to_string
i32_to_string(w) ==
    IF w.hi >= 0 THEN to_string(w)
    ELSE <<"-">> \o to_string(IF w.lo = 0 THEN W(-w.hi, 0) ELSE W((-w.hi) - 1, Limb - w.lo))

(***************************************************************************)
(* Connection: the public operations.                                      *)
(***************************************************************************)
get_error_description(self, error_id, resp) ==
    LET r == get_parsed(<<"error_description">>,
                        <<[key |-> <<"id">>, value |-> i32_to_string(error_id)]>>, <<>>, resp)
        d == then_str(field(as_object(r.res.v), "description"))
    IN  IF r.res.k # "Ok" THEN Return(self, r.res, r.sent)
        ELSE IF ~d.some THEN Return(self, Panic, r.sent)
        ELSE Return(self, Ok(d.v), r.sent)

get_players(self, resp) ==
    LET x == get_parsed(<<"players">>, <<>>, <<>>, resp)
        y == then_array(field(as_object(x.res.v), "players"))
    IN  IF x.res.k # "Ok" THEN Return(self, x.res, x.sent)
        ELSE IF ~y.some THEN Return(self, Panic, x.sent)
        ELSE Return(self, decode_entries(y.v), x.sent)

get_nickname(self) ==
    IF self.info.some THEN Return(self, Ok(self.info.v.nickname), <<>>)
    ELSE Return(self, Panic, <<>>)

\* get_state returning the state stored before the call
get_state_returns_old(self, resp) ==
    LET r == get_parsed_with_id(self, <<"state">>, <<>>, <<>>, resp)
        state_id == then_u64(field(as_object(r.res.v), "state"))
    IN  IF r.res.k # "Ok" THEN Return(self, r.res, r.sent)
        ELSE IF ~state_id.some THEN Return(self, Panic, r.sent)
        ELSE Return([self EXCEPT !.state = State_from_id(state_id.v)],
                    Ok(self.state), r.sent)

get_state(self, resp) ==
    LET r == get_parsed_with_id(self, <<"state">>, <<>>, <<>>, resp)
        state_id == then_u64(field(as_object(r.res.v), "state"))
    IN  IF r.res.k # "Ok" THEN Return(self, r.res, r.sent)
        ELSE IF ~state_id.some THEN Return(self, Panic, r.sent)
        ELSE Return([self EXCEPT !.state = State_from_id(state_id.v)],
                    Ok(State_from_id(state_id.v)), r.sent)

get_stored_state(self) == self.state

\* register assigning the state before it decodes the payload
register_state_first(self, nickname, resp) ==
    LET r == post_parsed(<<"register">>,
                         <<[key |-> <<"name">>, value |-> nickname]>>, <<>>, resp)
        pl == then_object(field(as_object(r.res.v), "player"))
        nick == then_str(field(pl, "nickname"))
        id == then_u64(field(pl, "id"))
        player_id == then_u64(field(pl, "player_id"))
    IN  IF r.res.k # "Ok" THEN Return(self, r.res, r.sent)
        ELSE IF ~(nick.some /\ id.some /\ player_id.some)
             THEN Return([self EXCEPT !.state = Idle], Panic, r.sent)
        ELSE Return([state |-> Idle,
                     info |-> Some(RegPlayerInfo_new(nick.v, id.v, player_id.v))],
                    Ok(<<>>), r.sent)

\* register passing player_id and id to RegPlayerInfo::new in the wrong order
register_swapped_ids(self, nickname, resp) ==
    LET r == post_parsed(<<"register">>,
                         <<[key |-> <<"name">>, value |-> nickname]>>, <<>>, resp)
        pl == then_object(field(as_object(r.res.v), "player"))
        nick == then_str(field(pl, "nickname"))
        id == then_u64(field(pl, "id"))
        player_id == then_u64(field(pl, "player_id"))
    IN  IF r.res.k # "Ok" THEN Return(self, r.res, r.sent)
        ELSE IF ~(nick.some /\ id.some /\ player_id.some) THEN Return(self, Panic, r.sent)
        ELSE Return([state |-> Idle,
                     info |-> Some(RegPlayerInfo_new(nick.v, player_id.v, id.v))],
                    Ok(<<>>), r.sent)

register(self, nickname, resp) ==
    LET r == post_parsed(<<"register">>,
                         <<[key |-> <<"name">>, value |-> nickname]>>, <<>>, resp)
        pl == then_object(field(as_object(r.res.v), "player"))
        nick == then_str(field(pl, "nickname"))
        id == then_u64(field(pl, "id"))
        player_id == then_u64(field(pl, "player_id"))
    IN  IF r.res.k # "Ok" THEN Return(self, r.res, r.sent)
        ELSE IF ~(nick.some /\ id.some /\ player_id.some) THEN Return(self, Panic, r.sent)
        ELSE Return([state |-> Idle,
                     info |-> Some(RegPlayerInfo_new(nick.v, id.v, player_id.v))],
                    Ok(<<>>), r.sent)

\* search moving to Searching from Idle only
search_from_idle_only(self, resp) ==
    LET r == post_parsed_with_id(self, <<"search">>, <<>>, <<>>, resp)
    IN  IF r.res.k # "Ok" THEN Return(self, r.res, r.sent)
        ELSE IF self.state = Idle
             THEN Return([self EXCEPT !.state = Searching], Ok(<<>>), r.sent)
        ELSE Return(self, Ok(<<>>), r.sent)

search(self, resp) ==
    LET r == post_parsed_with_id(self, <<"search">>, <<>>, <<>>, resp)
    IN  IF r.res.k # "Ok" THEN Return(self, r.res, r.sent)
        ELSE Return([self EXCEPT !.state = Searching], Ok(<<>>), r.sent)

\* idle toggling between Idle and Searching
idle_toggle(self, resp) ==
    LET r == post_parsed_with_id(self, <<"idle">>, <<>>, <<>>, resp)
    IN  IF r.res.k # "Ok" THEN Return(self, r.res, r.sent)
        ELSE IF self.state = Idle
             THEN Return([self EXCEPT !.state = Searching], Ok(<<>>), r.sent)
        ELSE Return([self EXCEPT !.state = Idle], Ok(<<>>), r.sent)

\* idle without its assignment to the state
idle_without_assignment(self, resp) ==
    LET r == post_parsed_with_id(self, <<"idle">>, <<>>, <<>>, resp)
    IN  IF r.res.k # "Ok" THEN Return(self, r.res, r.sent)
        ELSE Return(self, Ok(<<>>), r.sent)

idle(self, resp) ==
    LET r == post_parsed_with_id(self, <<"idle">>, <<>>, <<>>, resp)
    IN  IF r.res.k # "Ok" THEN Return(self, r.res, r.sent)
        ELSE Return([self EXCEPT !.state = Idle], Ok(<<>>), r.sent)

\* send_request without the test of in_game
send_request_always_playing(self, send_to, resp) ==
    LET x == post_parsed_with_id(self, <<"requests">>,
                                 <<[key |-> <<"send_to">>, value |-> to_string(send_to)]>>,
                                 <<>>, resp)
        in_game == then_bool(field(as_object(x.res.v), "in_game"))
    IN  IF x.res.k # "Ok" THEN Return(self, x.res, x.sent)
        ELSE IF ~in_game.some THEN Return(self, Panic, x.sent)
        ELSE Return([self EXCEPT !.state = Playing], Ok(<<>>), x.sent)

send_request(self, send_to, resp) ==
    LET x == post_parsed_with_id(self, <<"requests">>,
                                 <<[key |-> <<"send_to">>, value |-> to_string(send_to)]>>,
                                 <<>>, resp)
        in_game == then_bool(field(as_object(x.res.v), "in_game"))
    IN  IF x.res.k # "Ok" THEN Return(self, x.res, x.sent)
        ELSE IF ~in_game.some THEN Return(self, Panic, x.sent)
        ELSE IF in_game.v THEN Return([self EXCEPT !.state = Playing], Ok(<<>>), x.sent)
        ELSE Return(self, Ok(<<>>), x.sent)

get_requests(self, resp) ==
    LET x == get_parsed_with_id(self, <<"requests">>, <<>>, <<>>, resp)
        y == then_array(field(as_object(x.res.v), "requests"))
    IN  IF x.res.k # "Ok" THEN Return(self, x.res, x.sent)
        ELSE IF ~y.some THEN Return(self, Panic, x.sent)
        ELSE Return(self, decode_entries(y.v), x.sent)

\* send_message marking the session as Playing
send_message_sets_playing(self, message, resp) ==
    LET r == post_parsed_with_id(self, <<"messages">>, <<>>, message, resp)
    IN  IF r.res.k # "Ok" THEN Return(self, r.res, r.sent)
        ELSE Return([self EXCEPT !.state = Playing], Ok(<<>>), r.sent)

send_message(self, message, resp) ==
    LET r == post_parsed_with_id(self, <<"messages">>, <<>>, message, resp)
    IN  IF r.res.k # "Ok" THEN Return(self, r.res, r.sent)
        ELSE Return(self, Ok(<<>>), r.sent)

get_messages(self, resp) ==
    LET x == get_parsed_with_id(self, <<"messages">>, <<>>, <<>>, resp)
        y == then_array(field(as_object(x.res.v), "messages"))
    IN  IF x.res.k # "Ok" THEN Return(self, x.res, x.sent)
        ELSE IF ~y.some THEN Return(self, Panic, x.sent)
        ELSE IF \A i \in 1 .. Len(y.v) : as_str(y.v[i]).some
             THEN Return(self, Ok([i \in 1 .. Len(y.v) |-> as_str(y.v[i]).v]), x.sent)
             ELSE Return(self, Panic, x.sent)

\* end_game moving the session back to Idle
end_game_sets_idle(self, resp) ==
    LET r == post_parsed_with_id(self, <<"end_game">>, <<>>, <<>>, resp)
    IN  IF r.res.k # "Ok" THEN Return(self, r.res, r.sent)
        ELSE Return([self EXCEPT !.state = Idle], Ok(<<>>), r.sent)

end_game(self, resp) ==
    LET r == post_parsed_with_id(self, <<"end_game">>, <<>>, <<>>, resp)
    IN  IF r.res.k # "Ok" THEN Return(self, r.res, r.sent)
        ELSE Return(self, Ok(<<>>), r.sent)

(***************************************************************************)
(* The inputs: what the callers pass and what the transport yields.        *)
(***************************************************************************)
Nicknames == {<<"alice">>, <<"bob">>}
Ids == {W(0, n) : n \in 1 .. MaxId}
\* player_ids of registration payloads: 1 and 42
PlayerIds == {W(0, 1), W(0, 42)}
\* targets of send_request: 9 and 65536
Targets == {W(0, 9), W(1, 0)}
Messages == {<<"hello">>}
\* error ids passed to get_error_description
ErrorArgs == {W(0, 3), W(-1, Limb - 4)}

\* ids of error envelopes: 5, -1, 2^31 - 1, 2^31, 2^32 + 7
ErrorIds ==
    {W(0, 5), W(-1, Limb - 1), W(HalfLimb - 1, Limb - 1), W(HalfLimb, 0), W(Limb, 7)}

ErrorEnvelope(id) ==
    JObj([error |-> JObj([id |-> JInt(id.hi, id.lo),
                          description |-> JStr(<<"denied">>),
                          info |-> JStr(<<"details">>)])])

Success(payload) == JObj([success |-> payload])

\* bodies that are not an envelope, or whose error object is malformed
MalformedEnvelopes ==
    {JArr(<<>>), JObj(<<>>),
     JObj([error |-> JNull]),
     JObj([error |-> JObj([id |-> JInt(0, 5), description |-> JStr(<<"denied">>)])]),
     JObj([error |-> JObj([id |-> JStr(<<"5">>), description |-> JStr(<<"denied">>),
                           info |-> JStr(<<"details">>)])])}

\* what any request may be answered with, whatever the operation
CommonResponses ==
    {TransportFail} \cup MalformedEnvelopes \cup {ErrorEnvelope(id) : id \in ErrorIds}
    \cup {Success(JObj(<<>>)),
          JObj([success |-> JNull, error |-> JObj([id |-> JInt(0, 5),
                                                    description |-> JStr(<<"denied">>),
                                                    info |-> JStr(<<"details">>)])])}

\* a payload for the operations that ignore theirs
IgnoredResponses == {Success(JObj([in_game |-> JBool(TRUE)]))}

PlayerPayload(nickname, id, player_id) ==
    JObj([player |-> JObj([nickname |-> JStr(nickname),
                           id |-> JInt(id.hi, id.lo),
                           player_id |-> JInt(player_id.hi, player_id.lo)])])

RegisterResponses ==
    {Success(PlayerPayload(n, i, p)) : n \in Nicknames, i \in Ids, p \in PlayerIds}
    \cup {Success(JObj([player |-> JNull])),
          Success(JObj([player |-> JObj([id |-> JInt(0, 1), player_id |-> JInt(0, 2)])])),
          Success(JObj([player |-> JObj([nickname |-> JStr(<<"alice">>),
                                         id |-> JInt(-1, Limb - 1),
                                         player_id |-> JInt(0, 2)])])),
          Success(JObj([player |-> JObj([nickname |-> JStr(<<"alice">>),
                                         id |-> JInt(0, 1),
                                         player_id |-> JStr(<<"2">>)])]))}

\* state codes 0 .. MaxCode, 65536, -1, a fraction and a string
StateResponses ==
    {Success(JObj([state |-> JInt(0, c)])) : c \in 0 .. MaxCode}
    \cup {Success(JObj([state |-> JInt(1, 0)])),
          Success(JObj([state |-> JInt(-1, Limb - 1)])),
          Success(JObj([state |-> JFloat])),
          Success(JObj([state |-> JStr(<<"2">>)]))}

InGameResponses ==
    {Success(JObj([in_game |-> JBool(b)])) : b \in BOOLEAN}
    \cup {Success(JObj([in_game |-> JInt(0, 1)]))}

\* lists of entries "<id>:<nickname>", well-formed and not
EntryLists ==
    {<<>>,
     <<JStr(<<"3", ":", "bob">>), JStr(<<"1", "7", ":", "carol", ":", "extra">>)>>,
     <<JStr(<<"+", "3", ":", "bob">>)>>,
     <<JStr(<<"0", "7", ":", "dave">>)>>,
     <<JStr(<<"3", ":", "bob">>), JStr(<<"notanid", ":", "x">>)>>,
     <<JStr(<<"3", "bob">>)>>,
     <<JStr(<<":", "bob">>)>>,
     <<JInt(0, 3)>>}

PlayersResponses ==
    {Success(JObj([players |-> JArr(l)])) : l \in EntryLists}
    \cup {Success(JObj([players |-> JStr(<<"3", ":", "bob">>)]))}

RequestsResponses ==
    {Success(JObj([requests |-> JArr(l)])) : l \in EntryLists}
    \cup {Success(JObj([requests |-> JStr(<<"3", ":", "bob">>)]))}

MessagesResponses ==
    {Success(JObj([messages |-> JArr(l)])) :
        l \in {<<>>, <<JStr(<<"hi">>), JStr(<<"there">>)>>, <<JStr(<<"hi">>), JNull>>}}
    \cup {Success(JObj([messages |-> JNull]))}

DescriptionResponses ==
    {Success(JObj([description |-> JStr(<<"no such player">>)])),
     Success(JObj([description |-> JInt(0, 3)]))}

\* the call made when no request was issued
NoResponse == [t |-> "none"]

(***************************************************************************)
(* The state: the Connection, and the last call made on it (the operation, *)
(* its arguments, the connection before it, the response the transport     *)
(* gave, what the operation returned and the requests it issued).          *)
(***************************************************************************)
VARIABLES state, info, op, args, pre, resp, res, sent

vars == <<state, info, op, args, pre, resp, res, sent>>

Self == [state |-> state, info |-> info]

Init ==
    /\ state = Connection_new.state
    /\ info = Connection_new.info
    /\ op = "new"
    /\ args = <<>>
    /\ pre = Connection_new
    /\ resp = NoResponse
    /\ res = Ok(<<>>)
    /\ sent = <<>>

\* a call of operation o with arguments a, answered by r, returning out.
\* A caller that catches the unwinding of a panic keeps using the connection.
Call(o, a, r, out) ==
    /\ state' = out.self.state
    /\ info' = out.self.info
    /\ op' = o
    /\ args' = a
    /\ pre' = Self
    /\ resp' = IF Len(out.sent) = 0 THEN NoResponse ELSE r
    /\ res' = out.res
    /\ sent' = out.sent

GetErrorDescription ==
    \E error_id \in ErrorArgs, r \in CommonResponses \cup DescriptionResponses :
        Call("get_error_description", <<error_id>>, r, get_error_description(Self, error_id, r))

GetPlayers ==
    \E r \in CommonResponses \cup PlayersResponses :
        Call("get_players", <<>>, r, get_players(Self, r))

GetNickname == Call("get_nickname", <<>>, NoResponse, get_nickname(Self))

GetState ==
    \E r \in CommonResponses \cup StateResponses :
        Call("get_state", <<>>, r, get_state(Self, r))

GetStoredState ==
    Call("get_stored_state", <<>>, NoResponse, Return(Self, Ok(get_stored_state(Self)), <<>>))

Register ==
    \E nickname \in Nicknames, r \in CommonResponses \cup RegisterResponses :
        Call("register", <<nickname>>, r, register(Self, nickname, r))

Search ==
    \E r \in CommonResponses \cup IgnoredResponses :
        Call("search", <<>>, r, search(Self, r))

DoIdle ==
    \E r \in CommonResponses \cup IgnoredResponses :
        Call("idle", <<>>, r, idle(Self, r))

SendRequest ==
    \E send_to \in Targets, r \in CommonResponses \cup InGameResponses :
        Call("send_request", <<send_to>>, r, send_request(Self, send_to, r))

GetRequests ==
    \E r \in CommonResponses \cup RequestsResponses :
        Call("get_requests", <<>>, r, get_requests(Self, r))

SendMessage ==
    \E message \in Messages, r \in CommonResponses \cup IgnoredResponses :
        Call("send_message", <<message>>, r, send_message(Self, message, r))

GetMessages ==
    \E r \in CommonResponses \cup MessagesResponses :
        Call("get_messages", <<>>, r, get_messages(Self, r))

EndGame ==
    \E r \in CommonResponses \cup IgnoredResponses :
        Call("end_game", <<>>, r, end_game(Self, r))

Next ==
    \/ GetErrorDescription
    \/ GetPlayers
    \/ GetNickname
    \/ GetState
    \/ GetStoredState
    \/ Register
    \/ Search
    \/ DoIdle
    \/ SendRequest
    \/ GetRequests
    \/ SendMessage
    \/ GetMessages
    \/ EndGame

Spec == Init /\ [][Next]_vars

TypeOK ==
    /\ state.tag \in {"Registration", "Idle", "Searching", "Playing", "Disconnected"}
    /\ info.some \in BOOLEAN
    /\ res.k \in {"Ok", "Err", "Panic"}
    /\ Len(sent) \in {0, 1}

(***************************************************************************)
(* The claims.                                                             *)
(***************************************************************************)
\* the operations whose route is prefixed with the id of the registration
ScopedOps ==
    {"get_state", "search", "idle", "send_request", "get_requests",
     "send_message", "get_messages", "end_game"}

UnscopedOps == {"register", "get_players", "get_error_description"}

\* the command of each operation that issues a request
Command(o) ==
    CASE o = "get_state" -> <<"state">>
      [] o = "search" -> <<"search">>
      [] o = "idle" -> <<"idle">>
      [] o = "send_request" -> <<"requests">>
      [] o = "get_requests" -> <<"requests">>
      [] o = "send_message" -> <<"messages">>
      [] o = "get_messages" -> <<"messages">>
      [] o = "end_game" -> <<"end_game">>
      [] o = "register" -> <<"register">>
      [] o = "get_players" -> <<"players">>
      [] o = "get_error_description" -> <<"error_description">>

\* the last call received a decoded body
Answered == Len(sent) = 1 /\ resp.t # "fail"

\* the response is an object with the key
HasKey(v, key) == v.t = "obj" /\ key \in DOMAIN v.o

\* the response is a success envelope; its payload
IsSuccess(r) == HasKey(r, "success")
Payload(r) == r.o["success"]

\* C1: a call that does not fully succeed (it returns an error or aborts)
\* leaves the stored state and the registration info as they were before it.
C1_FailedCallKeepsSession ==
    res.k # "Ok" => (state = pre.state /\ info = pre.info)

\* a register that received a success envelope with a malformed payload, on
\* a session whose stored state is not Idle
C1_Witness ==
    /\ op = "register"
    /\ Answered
    /\ IsSuccess(resp)
    /\ res.k # "Ok"
    /\ pre.state.tag \notin {"Idle", "Registration"}

\* C2 as stated: the info is unset exactly when the stored state is
\* Registration.
C2_Original == (~info.some) <=> (state.tag = "Registration")

\* C2 as amended: a session without info has stored state Registration, and
\* a session with info gets the stored state Registration only by a
\* successful get_state answered with state code 0.
C2_InfoUnsetOnlyInRegistration ==
    /\ [](~info.some => state.tag = "Registration")
    /\ [][(info'.some /\ state'.tag = "Registration"
             /\ ~(info.some /\ state.tag = "Registration"))
          => (/\ op' = "get_state"
              /\ res'.k = "Ok"
              /\ info.some
              /\ Payload(resp').o["state"] = JInt(0, 0))]_vars

\* a registered session whose get_state has just stored Registration
C2_Witness ==
    /\ op = "get_state"
    /\ res.k = "Ok"
    /\ info.some
    /\ state.tag = "Registration"
    /\ pre.state.tag # "Registration"

\* C3: a session-scoped operation or get_nickname called while the info is
\* unset returns a NotRegistered error and issues no request.
C3_Original ==
    (op \in ScopedOps \cup {"get_nickname"} /\ ~pre.info.some)
        => (/\ res.k = "Err"
            /\ res.e.kind = "NotRegistered"
            /\ Len(sent) = 0)

\* C4: after a successful register answered with player {nickname, id,
\* player_id}, the stored state is Idle, the info is exactly that triple,
\* get_stored_state returns Idle and get_nickname returns that nickname.
C4_RegisterBindsInfo ==
    (op = "register" /\ res.k = "Ok")
        => LET pl == Payload(resp).o["player"].o
           IN  /\ state = Idle
               /\ info.some
               /\ info.v.nickname = pl["nickname"].s
               /\ info.v.id = W(pl["id"].hi, pl["id"].lo)
               /\ info.v.player_id = W(pl["player_id"].hi, pl["player_id"].lo)
               /\ get_stored_state(Self) = Idle
               /\ get_nickname(Self).res = Ok(pl["nickname"].s)

\* a successful register whose payload has two different identifiers, and a
\* nickname other than the one passed
C4_Witness ==
    /\ op = "register"
    /\ res.k = "Ok"
    /\ info.v.id # info.v.player_id
    /\ info.v.nickname # args[1]

\* the state the spec maps an integer state code [hi, lo] to
MappedState(c) ==
    IF c.hi = 0 /\ c.lo = 0 THEN "Registration"
    ELSE IF c.hi = 0 /\ c.lo = 1 THEN "Idle"
    ELSE IF c.hi = 0 /\ c.lo = 2 THEN "Searching"
    ELSE IF c.hi = 0 /\ c.lo = 3 THEN "Playing"
    ELSE "Disconnected"

\* C5: with the info bound, a get_state answered with a success envelope
\* carrying the integer state code c succeeds and stores Registration, Idle,
\* Searching, Playing for c = 0, 1, 2, 3 and Disconnected, with a non-empty
\* reason, for every other integer c.
C5_Original ==
    (/\ op = "get_state"
     /\ pre.info.some
     /\ Answered
     /\ IsSuccess(resp)
     /\ HasKey(Payload(resp), "state")
     /\ Payload(resp).o["state"].t = "int")
        => (/\ res.k = "Ok"
            /\ state.tag = MappedState(Payload(resp).o["state"])
            /\ (state.tag = "Disconnected" => state.reason # <<>>))

\* C6: a successful send_request stores Playing when the payload has
\* in_game = true and leaves the stored state as it was when in_game = false.
C6_SendRequestPlayingIffInGame ==
    (op = "send_request" /\ res.k = "Ok")
        => IF Payload(resp).o["in_game"].b THEN state = Playing ELSE state = pre.state

\* a successful send_request with in_game = false on a session that is not
\* Playing
C6_Witness ==
    /\ op = "send_request"
    /\ res.k = "Ok"
    /\ ~Payload(resp).o["in_game"].b
    /\ pre.state.tag = "Searching"

\* C7: once bound, the info never changes, whatever operation follows.
C7_Original == pre.info.some => info = pre.info

\* C8: a session-scoped operation addresses its request to
\* base_url/id/command, with the id bound at registration, and an unscoped
\* operation to base_url/command.
C8_Original ==
    \A i \in 1 .. Len(sent) :
        sent[i].url = IF op \in ScopedOps
                      THEN base_url \o <<"/">> \o to_string(pre.info.v.id)
                               \o <<"/">> \o Command(op)
                      ELSE base_url \o <<"/">> \o Command(op)

\* the error object of an envelope is complete: an integer id, a string
\* description and a string info
CompleteError(e) ==
    /\ HasKey(e, "id") /\ e.o["id"].t = "int"
    /\ HasKey(e, "description") /\ e.o["description"].t = "str"
    /\ HasKey(e, "info") /\ e.o["info"].t = "str"

\* a list entry is "<digits>:<rest>"
WellFormedEntry(z) ==
    /\ z.t = "str"
    /\ \E i \in 1 .. Len(z.s) :
          /\ z.s[i] = ":"
          /\ i > 1
          /\ \A j \in 1 .. (i - 1) : z.s[j] \in Digits

\* the success payload p has the shape operation o reads
ExpectedPayload(o, p) ==
    CASE o = "register" ->
            /\ HasKey(p, "player")
            /\ HasKey(p.o["player"], "nickname")
            /\ p.o["player"].o["nickname"].t = "str"
            /\ HasKey(p.o["player"], "id")
            /\ p.o["player"].o["id"].t = "int" /\ p.o["player"].o["id"].hi >= 0
            /\ HasKey(p.o["player"], "player_id")
            /\ p.o["player"].o["player_id"].t = "int"
            /\ p.o["player"].o["player_id"].hi >= 0
      [] o = "get_state" ->
            HasKey(p, "state") /\ p.o["state"].t = "int"
      [] o = "send_request" ->
            HasKey(p, "in_game") /\ p.o["in_game"].t = "bool"
      [] o = "get_requests" ->
            /\ HasKey(p, "requests") /\ p.o["requests"].t = "arr"
            /\ \A i \in 1 .. Len(p.o["requests"].a) : WellFormedEntry(p.o["requests"].a[i])
      [] o = "get_players" ->
            /\ HasKey(p, "players") /\ p.o["players"].t = "arr"
            /\ \A i \in 1 .. Len(p.o["players"].a) : WellFormedEntry(p.o["players"].a[i])
      [] o = "get_messages" ->
            /\ HasKey(p, "messages") /\ p.o["messages"].t = "arr"
            /\ \A i \in 1 .. Len(p.o["messages"].a) : p.o["messages"].a[i].t = "str"
      [] o = "get_error_description" ->
            HasKey(p, "description") /\ p.o["description"].t = "str"
      [] OTHER -> TRUE

\* the decoded body r has the shape operation o expects
ExpectedShape(o, r) ==
    IF IsSuccess(r) THEN ExpectedPayload(o, Payload(r))
    ELSE HasKey(r, "error") /\ CompleteError(r.o["error"])

\* C9: a response that is valid JSON but not of the expected shape makes the
\* operation return a ProtocolError, and no response makes it abort.
C9_Original ==
    Answered
        => (/\ res.k # "Panic"
            /\ (~ExpectedShape(op, resp) => (res.k = "Err" /\ res.e.kind = "Protocol")))

\* C10: an envelope without success and with a complete error object makes
\* the operation fail with an error whose id, description and info are those
\* of the envelope, for every integer id.
C10_Original ==
    (Answered /\ ~IsSuccess(resp) /\ HasKey(resp, "error") /\ CompleteError(resp.o["error"]))
        => LET e == resp.o["error"].o
           IN  /\ res.k = "Err"
               /\ res.e.kind = "Remote"
               /\ res.e.id = W(e["id"].hi, e["id"].lo)
               /\ res.e.description = Some(e["description"].s)
               /\ res.e.info = Some(e["info"].s)

\* the operations that ignore the payload of a success envelope
IgnoringOps == {"search", "idle", "send_message", "end_game"}

\* C11: an envelope with a success key is a success whose payload is the value
\* under success, unchanged; the error key is not consulted, so an envelope
\* with both keys never yields the error.
C11_SuccessKeyWins ==
    (Answered /\ IsSuccess(resp))
        => (/\ parse(resp) = Ok(Payload(resp))
            /\ res.k # "Err"
            /\ (op \in IgnoringOps => res.k = "Ok")
            /\ ((op = "get_error_description" /\ res.k = "Ok")
                   => res.v = Payload(resp).o["description"].s))

\* an operation that succeeded on an envelope carrying both keys
C11_Witness ==
    /\ Answered
    /\ IsSuccess(resp)
    /\ HasKey(resp, "error")
    /\ op \in IgnoringOps
    /\ res.k = "Ok"

\* C12: with the info bound, a successful search stores Searching and a
\* successful idle stores Idle, whatever the stored state was.
C12_SearchAndIdleFromAnyState ==
    /\ (op = "search" /\ res.k = "Ok") => state = Searching
    /\ (op = "idle" /\ res.k = "Ok") => state = Idle
    /\ (op \in {"search", "idle"} /\ pre.info.some /\ Answered /\ IsSuccess(resp))
          => res.k = "Ok"

\* a successful search on a session whose stored state was Disconnected
C12_Witness ==
    /\ op = "search"
    /\ res.k = "Ok"
    /\ pre.state.tag = "Disconnected"

\* C13: an operation that succeeds twice in succession with the same
\* arguments and the same response leaves, the second time, the state and the
\* info as the first time left them; a successful idle leaves Idle each time.
C13_RepeatedSuccess ==
    /\ [][(/\ res.k = "Ok"
           /\ res'.k = "Ok"
           /\ op' = op
           /\ args' = args
           /\ resp' = resp)
          => (state' = state /\ info' = info)]_vars
    /\ []((op = "idle" /\ res.k = "Ok") => state = Idle)

\* a successful idle on a session that a successful idle could have left
C13_Witness ==
    /\ op = "idle"
    /\ res.k = "Ok"
    /\ pre.state = Idle
    /\ state = Idle

\* C14: end_game never changes the stored state or the info, whether it
\* succeeds or fails.
C14_EndGameKeepsSession ==
    op = "end_game" => (state = pre.state /\ info = pre.info)

\* a successful end_game on a session whose stored state is Playing
C14_Witness ==
    /\ op = "end_game"
    /\ res.k = "Ok"
    /\ pre.state = Playing
    /\ state = Playing

\* C15: a call issues at most one request; a request the transport fails is
\* not sent again and the transport's error is what the call returns;
\* get_stored_state and get_nickname issue none.
C15_AtMostOneRequest ==
    /\ Len(sent) <= 1
    /\ (op \in {"get_stored_state", "get_nickname", "new"} => Len(sent) = 0)
    /\ ((Len(sent) >= 1 /\ resp.t = "fail") => (res.k = "Err" /\ res.e = TransportError))

\* a call whose single request the transport failed
C15_Witness ==
    /\ Len(sent) = 1
    /\ resp.t = "fail"
    /\ res.k = "Err"
    /\ op = "get_players"

\* the key of the list in the payload of get_players and get_requests
ListKey(o) == IF o = "get_players" THEN "players" ELSE "requests"

\* the payload p carries under key a list of entries "<digits>:<rest>"
WellFormedList(p, key) ==
    /\ HasKey(p, key)
    /\ p.o[key].t = "arr"
    /\ \A i \in 1 .. Len(p.o[key].a) : WellFormedEntry(p.o[key].a[i])

\* the position of the first colon of an entry that has one
FirstColon(s) == CHOOSE i \in 1 .. Len(s) : s[i] = ":" /\ \A j \in 1 .. (i - 1) : s[j] # ":"

\* a sequence of digits without its leading zeros (a lone zero is kept)
RECURSIVE StripZeros(_)
StripZeros(d) == IF Len(d) > 1 /\ d[1] = "0" THEN StripZeros(Tail(d)) ELSE d

FrameOps ==
    {"get_requests", "send_message", "get_messages", "get_players",
     "get_error_description", "get_stored_state", "get_nickname"}

\* C17: get_requests, send_message, get_messages, get_players,
\* get_error_description, get_stored_state and get_nickname leave the state
\* and the info as they were; the state changes only by a successful
\* register, search, idle, get_state, or send_request with in_game = true.
C17_FrameOfTheState ==
    /\ op \in FrameOps => (state = pre.state /\ info = pre.info)
    /\ state # pre.state
          => (/\ op \in {"register", "search", "idle", "get_state", "send_request"}
              /\ res.k = "Ok"
              /\ (op = "send_request" => Payload(resp).o["in_game"].b))

\* a successful send_message on a session that is not Playing
C17_Witness ==
    /\ op = "send_message"
    /\ res.k = "Ok"
    /\ pre.state = Searching
    /\ state = Searching

\* C18: the stored state becomes Disconnected only by a successful get_state
\* whose code is none of 0, 1, 2, 3, and a Disconnected state has a non-empty
\* reason.
C18_DisconnectedOnlyByGetState ==
    /\ (state.tag = "Disconnected" /\ pre.state.tag # "Disconnected")
          => (/\ op = "get_state"
              /\ res.k = "Ok"
              /\ Payload(resp).o["state"].t = "int"
              /\ MappedState(Payload(resp).o["state"]) = "Disconnected")
    /\ state.tag = "Disconnected" => state.reason # <<>>

\* a get_state that has just moved a Playing session to Disconnected
C18_Witness ==
    /\ op = "get_state"
    /\ res.k = "Ok"
    /\ pre.state = Playing
    /\ state.tag = "Disconnected"

\* C19: from every session with the info bound, one successful idle, search
\* or send_request leads to Idle, Searching or Playing; from a session
\* without info one successful register leads to Idle.
C19_NoAbsorbingState ==
    /\ info.some
          => (/\ \E r \in CommonResponses \cup IgnoredResponses :
                    idle(Self, r).res.k = "Ok" /\ idle(Self, r).self.state = Idle
              /\ \E r \in CommonResponses \cup IgnoredResponses :
                    search(Self, r).res.k = "Ok" /\ search(Self, r).self.state = Searching
              /\ \E send_to \in Targets, r \in CommonResponses \cup InGameResponses :
                    /\ send_request(Self, send_to, r).res.k = "Ok"
                    /\ send_request(Self, send_to, r).self.state = Playing)
    /\ ~info.some
          => \E nickname \in Nicknames, r \in CommonResponses \cup RegisterResponses :
                /\ register(Self, nickname, r).res.k = "Ok"
                /\ register(Self, nickname, r).self.state = Idle

\* a registered session whose stored state is Disconnected
C19_Witness ==
    /\ info.some
    /\ state.tag = "Disconnected"
    /\ op = "get_state"

\* C20: the state a successful get_state returns is the state stored after
\* the call, the one get_stored_state then returns.
C20_GetStateReturnsStored ==
    (op = "get_state" /\ res.k = "Ok")
        => (res.v = state /\ get_stored_state(Self) = res.v)

\* a successful get_state that changed the stored state to Disconnected
C20_Witness ==
    /\ op = "get_state"
    /\ res.k = "Ok"
    /\ state.tag = "Disconnected"
    /\ pre.state.tag # "Disconnected"
====
